---- MODULE Spec2Model ----
(***************************************************************************)
(* The upload pipeline of the file dashboard, in its three variants:       *)
(*   "app"     src/advanced_app.py                                         *)
(*   "stylish" src/advanced_stylish_app.py, lines 1-187                    *)
(*   "app3"    src/advanced_stylish_app.py, lines 190-393 ("app (3).py")   *)
(* One behaviour is one run of the script on one upload.  A string is a    *)
(* sequence of one-character strings.                                      *)
(***************************************************************************)
EXTENDS Integers, Sequences, FiniteSets, TLC

VARIABLES
    variant,          \* which of the three scripts runs
    filename,         \* uploaded_file.name
    filesize,         \* uploaded_file.size
    PdfReader,        \* TRUE iff the PyPDF2 import succeeded
    docx,             \* TRUE iff the python-docx import succeeded
    raw,              \* TRUE once uploaded_file.read() has been executed
    extractor_calls,  \* number of calls of a text extractor in this run
    parts,            \* what the parser finds: page texts / paragraph texts
    parse_throws,     \* whether the parsing library raises on these bytes
    extracted,        \* the extractor's return value (Nothing: not set / failed)
    requested,        \* the operation the caller asks for
    operation,        \* the operation the script acts on
    user_text,        \* the text area's content
    download_as_txt,  \* the caller wants the text export
    download_as_docx, \* the caller wants the docx export
    result_text,      \* the text the operation composed (Nothing: none composed)
    errors,           \* st.error messages emitted, in order
    warnings,         \* st.warning messages emitted, in order
    exception,        \* the uncaught exception that ended the run, or None
    downloads,        \* st.download_button payloads offered, in order
    pc                \* the stage the run is in

vars == << variant, filename, filesize, PdfReader, docx, raw, extractor_calls,
           parts, parse_throws, extracted, requested, operation, user_text,
           download_as_txt, download_as_docx, result_text, errors, warnings,
           exception, downloads, pc >>

\* Python's None, for the string-valued slots (operation, exception)
None == "None"

\* an optional value: << >> is Python's None, << x >> is the value x
Nothing == << >>
Some(x) == << x >>
IsSome(o) == o # << >>
Get(o) == o[1]

----------------------------------------------------------------------------
(* Bounds and program constants *)

\* longest document, in pages (PDF) or paragraphs (DOCX)
MaxPages == 3
\* longest user text, in characters
MaxUserLen == 2
\* longest text built into a docx and read back, in characters
MaxTextLen == 5

MAX_FILE_SIZE_MB == 10
MaxBytes == MAX_FILE_SIZE_MB * 1024 * 1024

----------------------------------------------------------------------------
(* Python string primitives *)

NL == "\n"
NL2 == << NL, NL >>
\* the characters str.strip() removes
Whitespace == { " ", "\t", "\n", "\r" }

LowerChar(c) ==
    CASE c = "A" -> "a" [] c = "B" -> "b" [] c = "C" -> "c" [] c = "D" -> "d"
      [] c = "E" -> "e" [] c = "F" -> "f" [] c = "G" -> "g" [] c = "H" -> "h"
      [] c = "I" -> "i" [] c = "J" -> "j" [] c = "K" -> "k" [] c = "L" -> "l"
      [] c = "M" -> "m" [] c = "N" -> "n" [] c = "O" -> "o" [] c = "P" -> "p"
      [] c = "Q" -> "q" [] c = "R" -> "r" [] c = "S" -> "s" [] c = "T" -> "t"
      [] c = "U" -> "u" [] c = "V" -> "v" [] c = "W" -> "w" [] c = "X" -> "x"
      [] c = "Y" -> "y" [] c = "Z" -> "z" [] OTHER -> c

\* str.lower()
Lower(s) == [ i \in 1..Len(s) |-> LowerChar(s[i]) ]

\* str.endswith(suffix)
EndsWith(s, suffix) ==
    /\ Len(suffix) <= Len(s)
    /\ SubSeq(s, Len(s) - Len(suffix) + 1, Len(s)) = suffix

RECURSIVE LStrip(_)
LStrip(s) ==
    IF s # << >> /\ Head(s) \in Whitespace THEN LStrip(Tail(s)) ELSE s

RECURSIVE RStrip(_)
RStrip(s) ==
    IF s # << >> /\ s[Len(s)] \in Whitespace
    THEN RStrip(SubSeq(s, 1, Len(s) - 1)) ELSE s

\* str.strip()
Strip(s) == RStrip(LStrip(s))

\* sep.join(items)
RECURSIVE Join(_, _)
Join(items, sep) ==
    IF items = << >> THEN << >>
    ELSE IF Len(items) = 1 THEN items[1]
    ELSE items[1] \o sep \o Join(Tail(items), sep)

\* str.split(c) for a one-character separator: always at least one piece
RECURSIVE Split(_, _)
Split(s, c) ==
    IF \A i \in 1..Len(s) : s[i] # c THEN << s >>
    ELSE LET k == CHOOSE i \in 1..Len(s) :
                      s[i] = c /\ \A j \in 1..(i - 1) : s[j] # c
         IN  << SubSeq(s, 1, k - 1) >> \o Split(SubSeq(s, k + 1, Len(s)), c)

\* os.path.splitext(p)[0] for a name without directory separators: the name is
\* cut at its last dot, unless only dots precede that dot
SplitextRoot(p) ==
    LET dots == { i \in 1..Len(p) : p[i] = "." }
    IN  IF dots = { } THEN p
        ELSE LET last == CHOOSE i \in dots : \A j \in dots : j <= i
             IN  IF \E j \in 1..(last - 1) : p[j] # "."
                 THEN SubSeq(p, 1, last - 1)
                 ELSE p

----------------------------------------------------------------------------
(* The helpers of the three scripts *)

Variants == { "app", "stylish", "app3" }

DotPdf == << ".", "p", "d", "f" >>
DotDocx == << ".", "d", "o", "c", "x" >>
DotTxt == << ".", "t", "x", "t" >>

TextMime == "text/plain"
WordMime == "application/vnd.openxmlformats-officedocument.wordprocessingml.document"

\* Python truthiness of a page's or paragraph's optional text: None and ""
\* are falsy
Truthy(t) == IsSome(t) /\ Get(t) # << >>

\* the texts of a sequence of optional texts, None read as ""
Texts(items) ==
    [ i \in 1..Len(items) |-> IF IsSome(items[i]) THEN Get(items[i]) ELSE << >> ]

\* a test that only asks for some extension
allowed_filetype_AnyExtension(name) == \E i \in 1..Len(name) : name[i] = "."

allowed_filetype(name) ==
    EndsWith(Lower(name), DotPdf) \/ EndsWith(Lower(name), DotDocx)

\* filename.lower().endswith(".pdf")
is_pdf(name) == EndsWith(Lower(name), DotPdf)

\* filesize > MAX_FILE_SIZE_MB * 1024 * 1024
too_large(size) == size > MaxBytes

\* app, stylish: every page contributes, a page without text as ""
extract_pdf_text(pages) ==
    Strip(Join(Texts(pages), NL2))

\* app, stylish: the paragraphs with text, joined and stripped
extract_docx_text(paragraphs) ==
    Strip(Join(Texts(SelectSeq(paragraphs, Truthy)), NL2))

\* app3: only the pages with text contribute
extract_text_from_pdf_bytes(pages) ==
    Strip(Join(Texts(SelectSeq(pages, Truthy)), NL2))

\* the extractor without its "if p.text" filter
extract_text_from_docx_bytes_NoFilter(paragraphs) ==
    Strip(Join(Texts(paragraphs), NL2))

\* app3: the paragraphs with text, joined and stripped
extract_text_from_docx_bytes(paragraphs) ==
    Strip(Join(Texts(SelectSeq(paragraphs, Truthy)), NL2))

\* the document python-docx writes: one paragraph per "\n"-separated line
create_docx_bytes_from_text(text) == Split(text, NL)

\* ord() of the characters the texts of this model are made of
Ord(c) ==
    CASE c = "\n" -> 10 [] c = " " -> 32 [] c = "a" -> 97 [] c = "b" -> 98
      [] c = "x" -> 120

\* text.encode("utf-8"), for ASCII text: one byte per character
encode_utf8(text) == [ i \in 1..Len(text) |-> Ord(text[i]) ]

\* the operation the script acts on.  app offers a PDF upload the select box
\* ("Read",) only, stylish has no select box in its PDF section; app3 and the
\* DOCX sections take the operation as selected
SelectOperation(v, name, req) ==
    IF v \in { "app", "stylish" } /\ is_pdf(name) THEN "Read" ELSE req

\* the not-installed message of the extractor, per script and format
NotInstalledMessage(v, name) ==
    IF v = "app3"
    THEN IF is_pdf(name) THEN "PyPDF2 is not installed. See requirements."
                         ELSE "python-docx is not installed. See requirements."
    ELSE IF v = "app"
    THEN IF is_pdf(name) THEN "PyPDF2 is not installed."
                         ELSE "python-docx is not installed."
    ELSE IF is_pdf(name) THEN "PyPDF2 not installed."
                         ELSE "python-docx not installed."

\* app3: the message of the RuntimeError that wraps a parser's exception
ParseFailedMessage(name) ==
    IF is_pdf(name) THEN "Failed to extract PDF text: <cause>"
                    ELSE "Failed to extract DOCX text: <cause>"

\* the text the extractor returns on a parse that does not raise
ExtractText(v, name, content) ==
    IF v = "app3"
    THEN IF is_pdf(name) THEN extract_text_from_pdf_bytes(content)
                         ELSE extract_text_from_docx_bytes(content)
    ELSE IF is_pdf(name) THEN extract_pdf_text(content)
                         ELSE extract_docx_text(content)

\* the parsing capability the upload's format needs
Capability(name) == IF is_pdf(name) THEN PdfReader ELSE docx

\* Append with its two operands swapped
ComposeText_AppendSwapped(op, text, input) ==
    CASE op = "Read" -> text
      [] op = "Write" -> Strip(input)
      [] op = "Append" -> Strip(input) \o NL2 \o text

\* Write that keeps the old content in front of the new one
ComposeText_WriteKeepsOld(op, text, input) ==
    CASE op = "Read" -> text
      [] op = "Write" -> text \o Strip(input)
      [] op = "Append" -> text \o NL2 \o Strip(input)

\* the result text of an operation whose input check passed
ComposeText(op, text, input) ==
    CASE op = "Read" -> text
      [] op = "Write" -> Strip(input)
      [] op = "Append" -> text \o NL2 \o Strip(input)

\* the check without the strip
EmptyInput_NoStrip(input) == input = << >>

\* not user_text.strip()
EmptyInput(input) == Strip(input) = << >>

EmptyInputMessage(v, op) ==
    IF op = "Write"
    THEN IF v = "app3"
         THEN "Write operation requires non-empty text in the input box. Please enter the content you want to save."
         ELSE "Write operation requires non-empty text."
    ELSE IF v = "app3"
         THEN "Append operation requires non-empty text to append."
         ELSE "Append operation requires non-empty text."

\* Append's downloads named like Write's
Suffix_AppendAsWritten(v, name, op) ==
    IF v \in { "app", "stylish" } /\ is_pdf(name) THEN << >>
    ELSE CASE op = "Read" ->
                IF v = "app3" THEN << "_", "e", "x", "t", "r", "a", "c", "t", "e", "d" >>
                              ELSE << "_", "r", "e", "a", "d" >>
           [] OTHER -> << "_", "w", "r", "i", "t", "t", "e", "n" >>

\* the suffix a script puts between the base name and the extension
Suffix(v, name, op) ==
    IF v \in { "app", "stylish" } /\ is_pdf(name) THEN << >>
    ELSE CASE op = "Read" ->
                IF v = "app3" THEN << "_", "e", "x", "t", "r", "a", "c", "t", "e", "d" >>
                              ELSE << "_", "r", "e", "a", "d" >>
           [] op = "Write" -> << "_", "w", "r", "i", "t", "t", "e", "n" >>
           [] op = "Append" -> << "_", "a", "p", "p", "e", "n", "d", "e", "d" >>

\* f"{os.path.splitext(filename)[0]}<suffix><ext>"
ExportName(name, suffix, ext) == SplitextRoot(name) \o suffix \o ext

TxtPayload(v, name, op, text) ==
    [ file_name |-> ExportName(name, Suffix(v, name, op), DotTxt),
      mime |-> TextMime,
      data |-> encode_utf8(text) ]

DocxPayload(v, name, op, text) ==
    [ file_name |-> ExportName(name, Suffix(v, name, op), DotDocx),
      mime |-> WordMime,
      data |-> create_docx_bytes_from_text(text) ]

\* whether the script offers the text download at all
OffersTxt(v, name, op) ==
    \/ v = "app3"
    \/ v = "stylish" /\ ~is_pdf(name)

\* whether the script reaches a docx download button.  app and stylish put the
\* PDF conversion behind "if text:" and the convert button; app has no docx
\* download for Read on a DOCX upload and an unconditional one for Write/Append
ReachesDocx(v, name, op, text, want) ==
    IF v \in { "app", "stylish" } /\ is_pdf(name) THEN text # << >> /\ want
    ELSE IF v = "app" THEN op # "Read"
    ELSE want

\* whether the docx download is guarded by "docx is not None"
GuardsDocx(v, name) == v = "app3" \/ (v = "stylish" /\ ~is_pdf(name))

----------------------------------------------------------------------------
(* The inputs of a run *)

Filenames ==
    { << "x", ".", "p", "d", "f" >>,
      << "R", ".", "D", "O", "C", "X" >>,
      << "i", "m", "a", "g", "e", ".", "p", "n", "g" >>,
      << ".", "p", "d", "f" >> }

\* the largest size accepted and the smallest one refused
Sizes == { MaxBytes, MaxBytes + 1 }

Operations == { "Read", "Write", "Append" }

\* what one page or paragraph can hold.  A PDF page's extract_text() may
\* return None; a paragraph's text is always a string
PageTexts == { Nothing, Some(<< "a" >>) }
ParagraphTexts == { Some(<< >>), Some(<< "a" >>) }

SeqsUpTo(S, n) == UNION { [ 1..k -> S ] : k \in 0..n }

Contents(name) ==
    SeqsUpTo(IF is_pdf(name) THEN PageTexts ELSE ParagraphTexts, MaxPages)

UserTexts == SeqsUpTo({ "x", " " }, MaxUserLen)

----------------------------------------------------------------------------
(* The run *)

Init ==
    /\ variant \in Variants
    /\ filename \in Filenames
    /\ filesize \in Sizes
    /\ PdfReader \in BOOLEAN
    /\ docx \in BOOLEAN
    /\ raw = FALSE
    /\ extractor_calls = 0
    /\ parts = << >>
    /\ parse_throws = FALSE
    /\ extracted = Nothing
    /\ requested = None
    /\ operation = None
    /\ user_text = << >>
    /\ download_as_txt = FALSE
    /\ download_as_docx = FALSE
    /\ result_text = Nothing
    /\ errors = << >>
    /\ warnings = << >>
    /\ exception = None
    /\ downloads = << >>
    /\ pc = "Validating"

\* The checks on the upload.  app3 checks the size, then the type, and reads
\* the bytes only when both pass; app and stylish read the bytes first and
\* check the type only.
Validate ==
    /\ pc = "Validating"
    /\ IF variant = "app3"
       THEN IF too_large(filesize)
            THEN /\ errors' = Append(errors, "File is too large. Max allowed is 10 MB.")
                 /\ pc' = "Aborted"
                 /\ raw' = raw
            ELSE IF ~allowed_filetype(filename)
            THEN /\ errors' = Append(errors, "Invalid file type. Only .pdf and .docx files are accepted.")
                 /\ pc' = "Aborted"
                 /\ raw' = raw
            ELSE /\ raw' = TRUE
                 /\ pc' = "Extracting"
                 /\ errors' = errors
       ELSE /\ raw' = TRUE
            /\ IF ~allowed_filetype(filename)
               THEN /\ errors' = Append(errors, "Only PDF and Word files are accepted.")
                    /\ pc' = "Aborted"
               ELSE /\ pc' = "Extracting"
                    /\ errors' = errors
    /\ UNCHANGED << variant, filename, filesize, PdfReader, docx, extractor_calls,
                    parts, parse_throws, extracted, requested, operation,
                    user_text, download_as_txt, download_as_docx, result_text,
                    warnings, exception, downloads >>

\* The call of the extractor of the upload's format.  What the parser finds in
\* the bytes (the pages or paragraphs, or that it raises) is drawn here.
Extract ==
    /\ pc = "Extracting"
    /\ extractor_calls' = extractor_calls + 1
    /\ \E content \in Contents(filename), throws \in BOOLEAN :
         \* a parser that is missing or raises yields no content
         /\ (~Capability(filename) \/ throws) => content = << >>
         /\ ~Capability(filename) => ~throws
         /\ parts' = content
         /\ parse_throws' = throws
         /\ IF ~Capability(filename)
            THEN \* the library is not installed
                 /\ errors' = Append(errors, NotInstalledMessage(variant, filename))
                 /\ exception' = exception
                 /\ IF variant = "app3"
                    THEN extracted' = Nothing /\ pc' = "Aborted"
                    ELSE extracted' = Some(<< >>) /\ pc' = "Composing"
            ELSE IF throws
            THEN \* the parser raises
                 /\ extracted' = Nothing
                 /\ IF variant = "app3"
                    THEN /\ errors' = Append(errors, ParseFailedMessage(filename))
                         /\ exception' = exception
                         /\ pc' = "Aborted"
                    ELSE /\ errors' = errors
                         /\ exception' = "Exception"
                         /\ pc' = "Crashed"
            ELSE /\ extracted' = Some(ExtractText(variant, filename, content))
                 /\ errors' = errors
                 /\ exception' = exception
                 /\ pc' = "Composing"
    /\ UNCHANGED << variant, filename, filesize, PdfReader, docx, raw, requested,
                    operation, user_text, download_as_txt, download_as_docx,
                    result_text, warnings, downloads >>

\* the warning a script gives for an empty extraction, if it gives one
EmptyTextWarning(v, name, op, text) ==
    IF op = "Read" /\ Strip(text) = << >>
    THEN IF v = "app3"
         THEN << "No extractable text found in the uploaded file." >>
         ELSE IF is_pdf(name) THEN << "No extractable text found in PDF." >>
         ELSE << >>
    ELSE << >>

\* The branch on the operation.  The caller's request (operation, text, export
\* kinds) is drawn here, where the script first looks at it.
Compose ==
    /\ pc = "Composing"
    /\ \E req \in Operations, input \in UserTexts, txt \in BOOLEAN, dx \in BOOLEAN :
         LET op == SelectOperation(variant, filename, req)
         IN  /\ requested' = req
             /\ operation' = op
             /\ user_text' = input
             /\ download_as_txt' = txt
             /\ download_as_docx' = dx
             /\ IF op \in { "Write", "Append" } /\ EmptyInput(input)
                THEN /\ errors' = Append(errors, EmptyInputMessage(variant, op))
                     /\ result_text' = Nothing
                     /\ warnings' = warnings
                     /\ pc' = "Aborted"
                ELSE /\ result_text' = Some(ComposeText(op, Get(extracted), input))
                     /\ warnings' = warnings \o
                            EmptyTextWarning(variant, filename, op, Get(extracted))
                     /\ errors' = errors
                     /\ pc' = "Exporting"
    /\ UNCHANGED << variant, filename, filesize, PdfReader, docx, raw,
                    extractor_calls, parts, parse_throws, extracted, exception,
                    downloads >>

\* The download buttons, text first.  A script that calls
\* create_docx_bytes_from_text without the "docx is not None" guard dies of an
\* AttributeError when python-docx is missing.
Export ==
    /\ pc = "Exporting"
    /\ LET text == Get(result_text)
           txt == IF OffersTxt(variant, filename, operation) /\ download_as_txt
                  THEN << TxtPayload(variant, filename, operation, text) >>
                  ELSE << >>
           reaches == ReachesDocx(variant, filename, operation, text, download_as_docx)
       IN  IF reaches /\ ~docx /\ ~GuardsDocx(variant, filename)
           THEN /\ downloads' = downloads \o txt
                /\ exception' = "AttributeError"
                /\ pc' = "Crashed"
           ELSE /\ downloads' = downloads \o txt \o
                        (IF reaches /\ docx
                         THEN << DocxPayload(variant, filename, operation, text) >>
                         ELSE << >>)
                /\ exception' = exception
                /\ pc' = "Done"
    /\ UNCHANGED << variant, filename, filesize, PdfReader, docx, raw,
                    extractor_calls, parts, parse_throws, extracted, requested,
                    operation, user_text, download_as_txt, download_as_docx,
                    result_text, errors, warnings >>

Next == Validate \/ Extract \/ Compose \/ Export

Spec == Init /\ [][Next]_vars

----------------------------------------------------------------------------
(* The vocabulary of the claims *)

\* the error kind of the specification's taxonomy that a message stands for
KindOf(msg) ==
    CASE msg = "File is too large. Max allowed is 10 MB." -> "FileTooLarge"
      [] msg \in { "Invalid file type. Only .pdf and .docx files are accepted.",
                   "Only PDF and Word files are accepted." } -> "UnsupportedFormat"
      [] msg \in { "PyPDF2 is not installed. See requirements.",
                   "python-docx is not installed. See requirements.",
                   "PyPDF2 is not installed.", "python-docx is not installed.",
                   "PyPDF2 not installed.", "python-docx not installed." }
            -> "ExtractionUnavailable"
      [] msg \in { "Failed to extract PDF text: <cause>",
                   "Failed to extract DOCX text: <cause>" } -> "ExtractionFailed"
      [] msg \in { "Write operation requires non-empty text in the input box. Please enter the content you want to save.",
                   "Write operation requires non-empty text.",
                   "Append operation requires non-empty text to append.",
                   "Append operation requires non-empty text." } -> "EmptyInputError"
      [] OTHER -> "Other"

\* the kinds of the errors emitted so far, in order
ErrorKinds == [ i \in 1..Len(errors) |-> KindOf(errors[i]) ]

HasError(kind) == \E i \in 1..Len(errors) : KindOf(errors[i]) = kind

\* s starts with prefix
StartsWith(s, prefix) ==
    /\ Len(prefix) <= Len(s)
    /\ SubSeq(s, 1, Len(prefix)) = prefix

\* sub occurs in s
Contains(s, sub) ==
    \E i \in 0..(Len(s) - Len(sub)) : SubSeq(s, i + 1, i + Len(sub)) = sub

Terminal == pc \in { "Done", "Aborted", "Crashed" }

\* the run has passed its Composing stage
Composed == pc \in { "Exporting", "Done", "Aborted", "Crashed" } /\ operation # None

\* the parser for the upload's format is installed and did not raise
ValidParse == extractor_calls > 0 /\ Capability(filename) /\ ~parse_throws

\* t is u without its leading and trailing whitespace, said without Strip
IsTrimOf(t, u) ==
    \E i \in 0..Len(u) : \E j \in i..Len(u) :
        /\ t = SubSeq(u, i + 1, j)
        /\ \A k \in 1..i : u[k] \in Whitespace
        /\ \A k \in (j + 1)..Len(u) : u[k] \in Whitespace
        /\ t # << >> => t[1] \notin Whitespace /\ t[Len(t)] \notin Whitespace

\* u is empty after trimming
Blank(u) == \A k \in 1..Len(u) : u[k] \in Whitespace

\* the lowercased name ends in .pdf, character by character
PdfNamed(name) ==
    LET n == Len(name)
        low(i) == LowerChar(name[i])
    IN  n >= 4 /\ low(n - 3) = "." /\ low(n - 2) = "p" /\ low(n - 1) = "d"
               /\ low(n) = "f"

\* the lowercased name ends in .docx, character by character
DocxNamed(name) ==
    LET n == Len(name)
        low(i) == LowerChar(name[i])
    IN  n >= 5 /\ low(n - 4) = "." /\ low(n - 3) = "d" /\ low(n - 2) = "o"
               /\ low(n - 1) = "c" /\ low(n) = "x"

\* the lowercased name ends in neither .pdf nor .docx
Unsupported(name) == ~PdfNamed(name) /\ ~DocxNamed(name)

HasPayload(mime) == \E i \in 1..Len(downloads) : downloads[i].mime = mime

----------------------------------------------------------------------------
(* C1 *)

\* C1: an upload larger than the maximum aborts with FileTooLarge on metadata
\* alone: its bytes are never read and no extractor is called in that run.
C1_OversizeRejectedOnMetadata ==
    filesize > 10 * 1024 * 1024 =>
        /\ raw = FALSE
        /\ extractor_calls = 0
        /\ pc # "Validating" => pc = "Aborted" /\ ErrorKinds = << "FileTooLarge" >>

----------------------------------------------------------------------------
(* C2 *)

\* C2 as stated: a filename ending in neither .pdf nor .docx fails validation
\* with UnsupportedFormat whatever the size, and no extractor is called.
C2_UnsupportedWhateverSize ==
    Unsupported(filename) =>
        /\ extractor_calls = 0
        /\ pc # "Validating" => pc = "Aborted" /\ ErrorKinds = << "UnsupportedFormat" >>

\* C2 amended: a filename ending in neither .pdf nor .docx fails validation
\* with exactly one error and no extractor is called; the error is
\* UnsupportedFormat, except that app3, which checks the size first, reports
\* FileTooLarge for an upload larger than the maximum.
C2_UnsupportedNeverExtracted ==
    Unsupported(filename) =>
        /\ extractor_calls = 0
        /\ pc # "Validating" =>
              /\ pc = "Aborted"
              /\ ErrorKinds =
                    IF variant = "app3" /\ filesize > 10 * 1024 * 1024
                    THEN << "FileTooLarge" >> ELSE << "UnsupportedFormat" >>

\* an unsupported upload within the size limit was refused by app3
C2_Witness ==
    /\ variant = "app3"
    /\ Unsupported(filename)
    /\ filesize <= 10 * 1024 * 1024
    /\ pc = "Aborted"
    /\ ErrorKinds = << "UnsupportedFormat" >>
    /\ extractor_calls = 0

----------------------------------------------------------------------------
(* C3 *)

\* C3: when the script acts on Write or Append, a user text that is empty
\* after trimming aborts the run with EmptyInputError and no export payload;
\* a user text that is not gives no EmptyInputError and a result text that
\* contains the trimmed user text.
C3_EmptyInputRule ==
    (Composed /\ operation \in { "Write", "Append" }) =>
        IF Blank(user_text)
        THEN /\ pc = "Aborted"
             /\ HasError("EmptyInputError")
             /\ downloads = << >>
             /\ result_text = Nothing
        ELSE /\ ~HasError("EmptyInputError")
             /\ IsSome(result_text)
             /\ \E t \in UserTexts :
                    IsTrimOf(t, user_text) /\ Contains(Get(result_text), t)

\* a Write with a whitespace-only text was refused
C3_Witness ==
    /\ operation = "Write"
    /\ user_text = << " ", " " >>
    /\ pc = "Aborted"
    /\ HasError("EmptyInputError")
    /\ downloads = << >>

----------------------------------------------------------------------------
(* C4 *)

\* C4: Append with a user text that is not empty after trimming composes the
\* extracted text, then "\n\n", then the trimmed user text, also when the
\* extracted text is empty (the result then starts with the two line breaks).
C4_AppendOrder ==
    (Composed /\ operation = "Append" /\ ~Blank(user_text)) =>
        /\ IsSome(result_text)
        /\ \E t \in UserTexts :
              /\ IsTrimOf(t, user_text)
              /\ Get(result_text) = Get(extracted) \o << "\n", "\n" >> \o t
        /\ Get(extracted) = << >> => StartsWith(Get(result_text), << "\n", "\n" >>)

\* an Append onto an empty extraction, with a user text that needed trimming
C4_Witness ==
    /\ operation = "Append"
    /\ pc = "Done"
    /\ ValidParse
    /\ extracted = Some(<< >>)
    /\ user_text = << " ", "x" >>
    /\ result_text = Some(<< "\n", "\n", "x" >>)

----------------------------------------------------------------------------
(* C5 *)

\* C5: Read on a validly parsed upload composes exactly the extracted text,
\* and an empty extracted text does not block export: the run ends Done with
\* every requested export that can be built (the text export where the script
\* has one, the docx export where python-docx is present), and with a warning.
C5_ReadNeverBlocked ==
    (ValidParse /\ Composed /\ operation = "Read") =>
        /\ result_text = extracted
        /\ (Terminal /\ Get(extracted) = << >>) =>
              /\ pc = "Done"
              /\ (download_as_txt /\ OffersTxt(variant, filename, operation))
                    => HasPayload(TextMime)
              /\ (download_as_docx /\ docx) => HasPayload(WordMime)
              /\ warnings # << >>

----------------------------------------------------------------------------
(* C6 *)

\* the pages that yielded text, in page order
RECURSIVE KeptPages(_)
KeptPages(pages) ==
    IF pages = << >> THEN << >>
    ELSE IF Head(pages) = Nothing \/ Head(pages) = Some(<< >>)
    THEN KeptPages(Tail(pages))
    ELSE << Get(Head(pages)) >> \o KeptPages(Tail(pages))

\* C6: PDF extraction returns the texts of the pages that yielded text, in
\* page order, with exactly one "\n\n" between consecutive kept pages; a page
\* without text contributes nothing.  (The page texts of this model carry no
\* whitespace, so the final trim leaves the joined text as it is.)
C6_PdfPagesJoined ==
    (ValidParse /\ is_pdf(filename) /\ IsSome(extracted)) =>
        Get(extracted) = Join(KeptPages(parts), << "\n", "\n" >>)

----------------------------------------------------------------------------
(* C7 *)

\* C7: a missing parsing capability or a parse that raises aborts the run with
\* one extraction error, ExtractionUnavailable for the former and
\* ExtractionFailed for the latter, with no extracted text and no export
\* payload, whatever the operation.
C7_ExtractionErrorAborts ==
    (extractor_calls > 0 /\ ~ValidParse) =>
        /\ pc = "Aborted"
        /\ extracted = Nothing
        /\ downloads = << >>
        /\ ErrorKinds = IF ~Capability(filename)
                        THEN << "ExtractionUnavailable" >>
                        ELSE << "ExtractionFailed" >>

----------------------------------------------------------------------------
(* C8 *)

\* the message a script has for a docx export it could not build
DocxOmittedMessages == { "Could not create .docx for download: <cause>" }

\* C8: without python-docx a run that reaches its exports is not aborted (said
\* here of the runs that have a text to export, which C5 does not cover): it
\* ends Done, the requested text export is there (where the script has one),
\* no docx payload is, and the omission of a requested docx export is recorded
\* as a warning.
C8_BuilderUnavailableDegrades ==
    (~docx /\ ValidParse /\ Terminal /\ IsSome(result_text)
           /\ Get(result_text) # << >>) =>
        /\ pc = "Done"
        /\ (download_as_txt /\ OffersTxt(variant, filename, operation))
              => HasPayload(TextMime)
        /\ ~HasPayload(WordMime)
        /\ download_as_docx =>
              \/ \E i \in 1..Len(warnings) : warnings[i] \in DocxOmittedMessages
              \/ \E i \in 1..Len(errors) : errors[i] \in DocxOmittedMessages

----------------------------------------------------------------------------
(* C9 *)

\* the name minus its extension, as os.path.splitext reads "extension": the
\* name up to its last dot, or the whole name when it has no dot or only dots
\* precede its last dot
RootName(name) ==
    LET cuts == { k \in 2..Len(name) :
                    /\ name[k] = "."
                    /\ \A m \in (k + 1)..Len(name) : name[m] # "."
                    /\ \E j \in 1..(k - 1) : name[j] # "." }
    IN  IF cuts = { } THEN name
        ELSE SubSeq(name, 1, (CHOOSE k \in cuts : TRUE) - 1)

\* the suffixes the specification gives an operation's exports
SpecSuffixes(op) ==
    CASE op = "Read" -> { << "_", "e", "x", "t", "r", "a", "c", "t", "e", "d" >>, << >> }
      [] op = "Write" -> { << "_", "w", "r", "i", "t", "t", "e", "n" >> }
      [] op = "Append" -> { << "_", "a", "p", "p", "e", "n", "d", "e", "d" >> }

\* a payload is named base + suffix + ".txt" with the text MIME type, or
\* base + suffix + ".docx" with the Word MIME type
WellNamed(payload, base, suffixes) ==
    \E suffix \in suffixes :
        \/ /\ payload.file_name = base \o suffix \o << ".", "t", "x", "t" >>
           /\ payload.mime = "text/plain"
        \/ /\ payload.file_name = base \o suffix \o << ".", "d", "o", "c", "x" >>
           /\ payload.mime = "application/vnd.openxmlformats-officedocument.wordprocessingml.document"

\* C9 as stated: every export is named by the original filename minus its
\* extension, the suffix of the operation (_extracted or none for Read,
\* _written, _appended) and .txt or .docx, with the matching MIME type.
C9_SpecNames ==
    \A i \in 1..Len(downloads) :
        WellNamed(downloads[i], RootName(filename), SpecSuffixes(operation))

\* C9 amended: every export is named by the original filename minus its
\* extension, the suffix of the operation (for Read _extracted, none, or in
\* stylish _read; for Write _written; for Append _appended) and .txt or
\* .docx, with the matching MIME type; no other suffix is produced.
C9_ExportNames ==
    \A i \in 1..Len(downloads) :
        LET read == << "_", "r", "e", "a", "d" >>
        IN  WellNamed(downloads[i], RootName(filename),
                SpecSuffixes(operation) \cup
                    (IF operation = "Read" /\ variant = "stylish" THEN { read } ELSE { }))

\* stylish offered a Read of a DOCX upload as R_read.txt and R_read.docx
C9_Witness ==
    /\ variant = "stylish"
    /\ operation = "Read"
    /\ pc = "Done"
    /\ Len(downloads) = 2
    /\ downloads[1].file_name = << "R", "_", "r", "e", "a", "d", ".", "t", "x", "t" >>
    /\ downloads[2].file_name = << "R", "_", "r", "e", "a", "d", ".", "d", "o", "c", "x" >>

----------------------------------------------------------------------------
(* C10 *)

Written == << "_", "w", "r", "i", "t", "t", "e", "n" >>

\* what a Write that was accepted must have produced: no abort, the trimmed
\* user text as the result whatever was extracted, and exports named
\* <base>_written.txt and <base>_written.docx for the kinds requested
WriteResult ==
    /\ pc \notin { "Aborted", "Crashed" }
    /\ \E t \in UserTexts : IsTrimOf(t, user_text) /\ result_text = Some(t)
    /\ pc = "Done" =>
          /\ \A i \in 1..Len(downloads) :
                WellNamed(downloads[i], RootName(filename), { Written })
          /\ (download_as_txt /\ variant # "app") => HasPayload("text/plain")
          /\ (download_as_docx /\ docx) => HasPayload(WordMime)

\* C10 as stated: Write is accepted for a valid upload of either format: with
\* a user text that is not empty after trimming the run reaches Done with the
\* trimmed user text as its result and exports named <base>_written.
C10_WriteEitherFormat ==
    (ValidParse /\ Composed /\ requested = "Write" /\ ~Blank(user_text))
        => WriteResult

\* C10 amended: Write is accepted for a valid .docx upload by every script and
\* for a valid .pdf upload by app3 only (app and stylish process a .pdf upload
\* as Read whatever operation is asked for); where it is accepted, with a user
\* text that is not empty after trimming, the run reaches Done with the trimmed
\* user text as its result, independent of the extracted text, and every
\* export it offers is named <base>_written.txt or <base>_written.docx.
C10_WriteWhereOffered ==
    /\ Composed =>
          operation = IF variant \in { "app", "stylish" } /\ PdfNamed(filename)
                      THEN "Read" ELSE requested
    /\ (ValidParse /\ Composed /\ operation = "Write" /\ ~Blank(user_text))
          => WriteResult

\* app3 wrote over a PDF upload that had text of its own
C10_Witness ==
    /\ variant = "app3"
    /\ filename = << "x", ".", "p", "d", "f" >>
    /\ operation = "Write"
    /\ pc = "Done"
    /\ extracted = Some(<< "a" >>)
    /\ user_text = << "x", " " >>
    /\ result_text = Some(<< "x" >>)
    /\ Len(downloads) = 2
    /\ downloads[1].file_name = << "x" >> \o Written \o << ".", "t", "x", "t" >>
    /\ downloads[2].file_name = << "x" >> \o Written \o << ".", "d", "o", "c", "x" >>

----------------------------------------------------------------------------
(* C11 *)

\* the stage that follows each stage of a run that succeeds
NextStage ==
    { << "Validating", "Extracting" >>, << "Extracting", "Composing" >>,
      << "Composing", "Exporting" >>, << "Exporting", "Done" >> }

\* one step of a run as C11 has it
C11_Step ==
    \* Aborted and Done are terminal
    /\ pc \notin { "Aborted", "Done" }
    \* a stage is left for the next one, or for Aborted
    /\ << pc, pc' >> \in NextStage \/ pc' = "Aborted"
    \* the next stage is entered only when the stage before it succeeded
    /\ pc' # "Aborted" => errors' = << >>
    \* an abort emits exactly one message and leaves no export payload
    /\ pc' = "Aborted" => Len(errors') = 1 /\ downloads' = << >>

\* C11: the stages are entered only in the order Validating, Extracting,
\* Composing, Exporting, Done, each only after the previous one succeeded;
\* Aborted is terminal, and a run that aborts has emitted exactly one error
\* message and offers no export payload.
C11_StagesInOrder == [][C11_Step]_vars

----------------------------------------------------------------------------
(* The round trip of a text through create_docx_bytes_from_text and the DOCX
   extractor: a run's docx export is uploaded again and read *)

\* the texts a docx is built from
RoundTripTexts == SeqsUpTo({ "a", "b", " ", "\n" }, MaxTextLen)

\* document.paragraphs of a document python-docx wrote with these paragraph
\* texts: the same texts, in order
Paragraphs(lines) == [ i \in 1..Len(lines) |-> Some(lines[i]) ]

\* a run of a DOCX upload that has composed a text and is about to build its
\* docx export (app has no docx export for Read)
RoundTripInit ==
    /\ variant \in Variants
    /\ filename = << "R", ".", "d", "o", "c", "x" >>
    /\ filesize = MaxBytes
    /\ PdfReader = TRUE
    /\ docx = TRUE
    /\ raw = TRUE
    /\ extractor_calls = 1
    /\ parts = << >>
    /\ parse_throws = FALSE
    /\ extracted = Nothing
    /\ operation \in Operations
    /\ variant = "app" => operation # "Read"
    /\ requested = operation
    /\ user_text = << >>
    /\ download_as_txt = FALSE
    /\ download_as_docx = TRUE
    /\ result_text \in { Some(t) : t \in RoundTripTexts }
    /\ errors = << >>
    /\ warnings = << >>
    /\ exception = None
    /\ downloads = << >>
    /\ pc = "Building"

\* the docx download button: create_docx_bytes_from_text on the composed text
BuildDocx ==
    /\ pc = "Building"
    /\ downloads' = << DocxPayload(variant, filename, operation, Get(result_text)) >>
    /\ pc' = "Reading"
    /\ UNCHANGED << variant, filename, filesize, PdfReader, docx, raw,
                    extractor_calls, parts, parse_throws, extracted, requested,
                    operation, user_text, download_as_txt, download_as_docx,
                    result_text, errors, warnings, exception >>

\* the downloaded docx is uploaded and its text extracted
ReadBack ==
    /\ pc = "Reading"
    /\ filename' = downloads[1].file_name
    /\ parts' = Paragraphs(downloads[1].data)
    /\ extractor_calls' = extractor_calls + 1
    /\ extracted' = Some(ExtractText(variant, filename', parts'))
    /\ pc' = "RoundTripped"
    /\ UNCHANGED << variant, filesize, PdfReader, docx, raw, parse_throws,
                    requested, operation, user_text, download_as_txt,
                    download_as_docx, result_text, errors, warnings, exception,
                    downloads >>

RoundTripNext == BuildDocx \/ ReadBack

RoundTripSpec == RoundTripInit /\ [][RoundTripNext]_vars

----------------------------------------------------------------------------
(* C12 *)

\* a text of the form DOCX extraction produces: one or more non-empty
\* paragraphs without a line break, joined by "\n\n", with no whitespace at
\* either end.  Said of the characters: the text is not empty, its ends are no
\* whitespace, and every line break has exactly one line break beside it
ExtractionForm(t) ==
    /\ t # << >>
    /\ t[1] \notin Whitespace
    /\ t[Len(t)] \notin Whitespace
    /\ \A i \in 1..Len(t) :
          t[i] = "\n" =>
              (i > 1 /\ t[i - 1] = "\n") # (i < Len(t) /\ t[i + 1] = "\n")

LineBreaks(t) == Cardinality({ i \in 1..Len(t) : t[i] = "\n" })

\* C12: a text of the form DOCX extraction produces, built into a docx with
\* one paragraph per "\n"-separated line and extracted again, comes back
\* unchanged: the blank paragraphs built for the empty lines are dropped.
C12_RoundTrip ==
    (pc = "RoundTripped" /\ ExtractionForm(Get(result_text))) =>
        /\ Len(parts) = LineBreaks(Get(result_text)) + 1
        /\ extracted = result_text

\* "a\n\nb" went through a three-paragraph docx, the middle one blank
C12_Witness ==
    /\ pc = "RoundTripped"
    /\ result_text = Some(<< "a", "\n", "\n", "b" >>)
    /\ parts = << Some(<< "a" >>), Some(<< >>), Some(<< "b" >>) >>
    /\ extracted = Some(<< "a", "\n", "\n", "b" >>)

====
